---- MODULE Spec2Model ----
(***************************************************************************)
(* A model of command/command.go of rds-try: the status waiter             *)
(* (WaitForStatusAvailable), the tag based discovery                       *)
(* (checkListTagsForResourceMessage, Describe...ByTags) and the query      *)
(* executor (ExecuteSQL).  Each component has its own specification over   *)
(* the same variables; the variables of the other components stay idle.    *)
(***************************************************************************)
EXTENDS Integers, Sequences, FiniteSets, TLC

VARIABLES
    \* ---- WaitForStatusAvailable (command.go 400-458)
    rdstypes,       \* dynamic kind of the argument: "instance", "snapshot", "other"
    pc,             \* position of the background task
    clock,          \* seconds since the ticker and the timeout were created
    tickC,          \* values buffered in ticker.C (capacity 1)
    tickerStopped,  \* ticker.Stop() has been called
    timeoutC,       \* values buffered in the time.After channel (capacity 1)
    timeoutFired,   \* the time.After timer has fired (it fires once)
    db,             \* result pointer of the last describe call (Nil or a status)
    rds_status,     \* the local rds_status of the current iteration
    describeCalls,  \* describe calls issued to the provider so far
    sendAttempts,   \* times the task reached a send on receiver
    delivered,      \* what the caller received from receiver, with when
    firstAvail,     \* index of the first describe call that returned "available"
    describeErr,    \* a describe call returned an error
    timeoutTaken,   \* the timeout case of the select has been taken
    \* ---- Describe...ByTags (command.go 84-150, 219-241)
    tagOp,          \* "instances": DescribeDBInstancesByTags, "snapshots": ...SnapshotsByTags
    tagPc,          \* "start", "loop", "done"
    dbList,         \* the provider's list (identifiers), Nil before the describe call
    tagIdx,         \* index of the range loop over resp
    dbOwned,        \* the local dbInstances / dbSnapshots
    tagResult,      \* the returned list
    tagErr,         \* the returned error is non-nil
    listCalls,      \* the ARNs list-tags was called with, in order
    tagFacts,       \* per list-tags call: what the provider answered, what the check said
    \* ---- ExecuteSQL (command.go 466-522)
    engine,         \* args.Engine, as characters
    outFile,        \* c.OutConfig.File
    nQueries,       \* len(args.Queries); the queries are 1..nQueries
    sqlPc,          \* "start", "loop", "done"
    qIdx,           \* index of the range loop over args.Queries
    times,          \* the local times; Nil where the code returns nil
    sqlTimes,       \* the returned list
    sqlErr,         \* the returned error, "nil" when there is none
    sqlLog,         \* the calls on the connection boundary, in order
    qFacts,         \* per query sent: did it fail, how long it took, its columns
    exports,        \* the writeCSVFile calls: query, out_state (ok), what failed on the file (io)
    \* ---- RestoreDBInstanceFromDBSnapshot, CreateDBSnapshot (command.go 198-217, 324-339)
    now,            \* the current time, as utils.GetFormatedTime() renders it
    created,        \* the resources the provider holds that this tool created
    ownedChecks,    \* checks of created resources: which one, what the check said
    \* ---- DescribeLatestDBSnapshot (command.go 255-284)
    lsResp,         \* the provider's answer to the describe-snapshots call
    lsPc,           \* "start", "done"
    lsResult,       \* the returned snapshot, Nil when there is none
    lsErr,          \* the returned error, "nil" when there is none
    \* ---- DeleteDBResources (command.go 373-397)
    delKind,        \* dynamic type of the argument: "snapshots", "instances", "other"
    delList,        \* the identifiers of the list's elements
    delPc,          \* "start", "loop", "done"
    delIdx,         \* index of the range loop
    delCalls,       \* the delete calls issued, in order
    delDeleted,     \* the identifiers the provider deleted
    delErr,         \* the returned error is non-nil; Nil before the return
    \* ---- writeCSVFile (command.go 615-680)
    csvPc,          \* "start", "rows", "done"
    csvBom,         \* args.Bom
    csvCols,        \* the column names of the result set
    csvColsErr,     \* args.Rows.Columns() fails
    csvIo,          \* what failed on the file: "none", "open", "truncate", "write"
    csvRows,        \* the rows the cursor has given so far
    csvBuf,         \* the text handed to the csv writer, not yet flushed
    csvFile,        \* the content of the file at out_path
    rawResult,      \* the scan destinations, reused for every row
    csvScans,       \* per row: 0, or the column at which Rows.Scan failed
    csvRet          \* the returned bool, Nil before the return

waitVars == <<rdstypes, pc, clock, tickC, tickerStopped, timeoutC, timeoutFired,
              db, rds_status, describeCalls, sendAttempts, delivered,
              firstAvail, describeErr, timeoutTaken>>

tagVars == <<tagOp, tagPc, dbList, tagIdx, dbOwned, tagResult, tagErr, listCalls,
             tagFacts>>

sqlVars == <<engine, outFile, nQueries, sqlPc, qIdx, times, sqlTimes, sqlErr,
             sqlLog, qFacts, exports>>

createVars == <<now, created, ownedChecks>>

latestVars == <<lsResp, lsPc, lsResult, lsErr>>

deleteVars == <<delKind, delList, delPc, delIdx, delCalls, delDeleted, delErr>>

csvVars == <<csvPc, csvBom, csvCols, csvColsErr, csvIo, csvRows, csvBuf, csvFile,
             rawResult, csvScans, csvRet>>

vars == <<waitVars, tagVars, sqlVars, createVars, latestVars, deleteVars, csvVars>>

\* the variables of the other components, per component
notWaitVars == <<tagVars, sqlVars, createVars, latestVars, deleteVars, csvVars>>
notTagVars == <<waitVars, sqlVars, createVars, latestVars, deleteVars, csvVars>>
notSqlVars == <<waitVars, tagVars, createVars, latestVars, deleteVars, csvVars>>
notCreateVars == <<waitVars, tagVars, sqlVars, latestVars, deleteVars, csvVars>>
notLatestVars == <<waitVars, tagVars, sqlVars, createVars, deleteVars, csvVars>>
notDeleteVars == <<waitVars, tagVars, sqlVars, createVars, latestVars, csvVars>>
notCsvVars == <<waitVars, tagVars, sqlVars, createVars, latestVars, deleteVars>>

(***************************************************************************)
(* Status waiter                                                           *)
(***************************************************************************)

\* 30 * time.Second, the ticker's interval
IntervalSec == 30
\* 30 * time.Minute, the overall timeout
TimeoutMin == 30
TimeoutSec == TimeoutMin * 60
\* how many ticker intervals the model follows the clock past the timeout
ExtraTicks == 2
MaxClock == TimeoutSec + ExtraTicks * IntervalSec

Nil == "nil"
Available == "available"
\* status strings are opaque; only "available" matters
Statuses == {"creating", Available}
\* what the provider answers to a describe call: an error, or a list of
\* resources (here: of their status fields)
ProviderResponses ==
    {[err |-> TRUE, list |-> <<>>]} \cup
    {[err |-> FALSE, list |-> l] : l \in {<<>>} \cup {<<s>> : s \in Statuses}
                                         \cup {<<"creating", s>> : s \in Statuses}}

\* DescribeDBInstance: nil + error on a provider error or an empty list, else
\* a pointer to the last element
DescribeDBInstance(resp) ==
    IF resp.err THEN [ptr |-> Nil, err |-> TRUE]
    ELSE IF Len(resp.list) < 1 THEN [ptr |-> Nil, err |-> TRUE]
    ELSE [ptr |-> resp.list[Len(resp.list)], err |-> FALSE]

\* DescribeDBSnapshot: the same shape for snapshots
DescribeDBSnapshot(resp) ==
    IF resp.err THEN [ptr |-> Nil, err |-> TRUE]
    ELSE IF Len(resp.list) < 1 THEN [ptr |-> Nil, err |-> TRUE]
    ELSE [ptr |-> resp.list[Len(resp.list)], err |-> FALSE]

\* the orchestrator receives from the channel once and then goes on
CallerWaiting == delivered = <<>>

WaitInit ==
    /\ rdstypes \in {"instance", "snapshot", "other"}
    /\ pc = "select"
    /\ clock = 0
    /\ tickC = 0
    /\ tickerStopped = FALSE
    /\ timeoutC = 0
    /\ timeoutFired = FALSE
    /\ db = Nil
    /\ rds_status = ""
    /\ describeCalls = 0
    /\ sendAttempts = 0
    /\ delivered = <<>>
    /\ firstAvail = 0
    /\ describeErr = FALSE
    /\ timeoutTaken = FALSE

WaitIdle ==
    /\ rdstypes = "other"
    /\ pc = "idle"
    /\ clock = 0
    /\ tickC = 0
    /\ tickerStopped = FALSE
    /\ timeoutC = 0
    /\ timeoutFired = FALSE
    /\ db = Nil
    /\ rds_status = ""
    /\ describeCalls = 0
    /\ sendAttempts = 0
    /\ delivered = <<>>
    /\ firstAvail = 0
    /\ describeErr = FALSE
    /\ timeoutTaken = FALSE

\* one ticker interval passes; a running ticker sends without blocking into
\* its channel of capacity 1 (a tick that finds the buffer full is dropped)
Elapse ==
    /\ pc # "panicked"
    /\ clock < MaxClock
    /\ clock' = clock + IntervalSec
    /\ tickC' = IF tickerStopped THEN tickC ELSE 1
    /\ UNCHANGED <<notWaitVars, rdstypes, pc, tickerStopped, timeoutC, timeoutFired, db,
                   rds_status, describeCalls, sendAttempts, delivered,
                   firstAvail, describeErr, timeoutTaken>>

\* the time.After timer fires once the timeout has elapsed
TimeoutFire ==
    /\ pc # "panicked"
    /\ clock >= TimeoutSec
    /\ ~timeoutFired
    /\ timeoutFired' = TRUE
    /\ timeoutC' = 1
    /\ UNCHANGED <<notWaitVars, rdstypes, pc, clock, tickC, tickerStopped, db, rds_status,
                   describeCalls, sendAttempts, delivered, firstAvail,
                   describeErr, timeoutTaken>>

\* a variant of TickCase whose type switch has no default branch: it takes
\* every argument for an instance
TickCaseAnyKind ==
    /\ pc = "select"
    /\ tickC = 1
    /\ tickC' = 0
    /\ rds_status' = ""
    /\ pc' = "describe"
    /\ describeCalls' = describeCalls + 1
    /\ UNCHANGED <<notWaitVars, rdstypes, clock, tickerStopped, timeoutC, timeoutFired, db,
                   sendAttempts, delivered, firstAvail, describeErr,
                   timeoutTaken>>

\* case tick := <-ticker.C, up to the describe call of the type switch
TickCase ==
    /\ pc = "select"
    /\ tickC = 1
    /\ tickC' = 0
    /\ rds_status' = ""
    /\ IF rdstypes \in {"snapshot", "instance"}
         THEN /\ pc' = "describe"
              /\ describeCalls' = describeCalls + 1
         ELSE /\ pc' = "check"
              /\ UNCHANGED describeCalls
    /\ UNCHANGED <<notWaitVars, rdstypes, clock, tickerStopped, timeoutC, timeoutFired, db,
                   sendAttempts, delivered, firstAvail, describeErr,
                   timeoutTaken>>

\* the describe call returns; on an error the task goes to receiver <- false
DescribeReturn ==
    /\ pc = "describe"
    /\ \E resp \in ProviderResponses :
         LET r == IF rdstypes = "snapshot" THEN DescribeDBSnapshot(resp)
                                           ELSE DescribeDBInstance(resp)
         IN /\ db' = r.ptr
            /\ describeErr' = (describeErr \/ r.err)
            /\ firstAvail' = IF ~r.err /\ r.ptr = Available /\ firstAvail = 0
                               THEN describeCalls ELSE firstAvail
            /\ IF r.err
                 THEN /\ pc' = "sendErr"
                      /\ sendAttempts' = sendAttempts + 1
                 ELSE /\ pc' = "deref"
                      /\ UNCHANGED sendAttempts
    /\ UNCHANGED <<notWaitVars, rdstypes, clock, tickC, tickerStopped, timeoutC,
                   timeoutFired, rds_status, describeCalls, delivered,
                   timeoutTaken>>

\* receiver <- false after a describe error, then ticker.Stop()
SendErrDeliver ==
    /\ pc = "sendErr"
    /\ CallerWaiting
    /\ delivered' = Append(delivered,
                           [val |-> FALSE, calls |-> describeCalls, at |-> clock])
    /\ tickerStopped' = TRUE
    /\ pc' = "deref"
    /\ UNCHANGED <<notWaitVars, rdstypes, clock, tickC, timeoutC, timeoutFired, db,
                   rds_status, describeCalls, sendAttempts, firstAvail,
                   describeErr, timeoutTaken>>

\* rds_status = *db_snapshot.Status / *db_instance.DBInstanceStatus: a nil
\* pointer panics, and the panic of a goroutine ends the process
Deref ==
    /\ pc = "deref"
    /\ IF db = Nil
         THEN /\ pc' = "panicked"
              /\ UNCHANGED rds_status
         ELSE /\ pc' = "check"
              /\ rds_status' = db
    /\ UNCHANGED <<notWaitVars, rdstypes, clock, tickC, tickerStopped, timeoutC,
                   timeoutFired, db, describeCalls, sendAttempts, delivered,
                   firstAvail, describeErr, timeoutTaken>>

\* a variant of CheckStatus that takes any status for "available"
CheckStatusAnyStatus ==
    /\ pc = "check"
    /\ IF rds_status # ""
         THEN /\ pc' = "sendTrue"
              /\ sendAttempts' = sendAttempts + 1
         ELSE /\ pc' = "select"
              /\ UNCHANGED sendAttempts
    /\ UNCHANGED <<notWaitVars, rdstypes, clock, tickC, tickerStopped, timeoutC,
                   timeoutFired, db, rds_status, describeCalls, delivered,
                   firstAvail, describeErr, timeoutTaken>>

\* if rds_status == "available", up to receiver <- true
CheckStatus ==
    /\ pc = "check"
    /\ IF rds_status = Available
         THEN /\ pc' = "sendTrue"
              /\ sendAttempts' = sendAttempts + 1
         ELSE /\ pc' = "select"
              /\ UNCHANGED sendAttempts
    /\ UNCHANGED <<notWaitVars, rdstypes, clock, tickC, tickerStopped, timeoutC,
                   timeoutFired, db, rds_status, describeCalls, delivered,
                   firstAvail, describeErr, timeoutTaken>>

\* receiver <- true, then ticker.Stop(), and the loop goes on
SendTrueDeliver ==
    /\ pc = "sendTrue"
    /\ CallerWaiting
    /\ delivered' = Append(delivered,
                           [val |-> TRUE, calls |-> describeCalls, at |-> clock])
    /\ tickerStopped' = TRUE
    /\ pc' = "select"
    /\ UNCHANGED <<notWaitVars, rdstypes, clock, tickC, timeoutC, timeoutFired, db,
                   rds_status, describeCalls, sendAttempts, firstAvail,
                   describeErr, timeoutTaken>>

\* case out := <-timeout, up to receiver <- false
TimeoutCase ==
    /\ pc = "select"
    /\ timeoutC = 1
    /\ timeoutC' = 0
    /\ timeoutTaken' = TRUE
    /\ pc' = "sendTimeout"
    /\ sendAttempts' = sendAttempts + 1
    /\ UNCHANGED <<notWaitVars, rdstypes, clock, tickC, tickerStopped, timeoutFired, db,
                   rds_status, describeCalls, delivered, firstAvail,
                   describeErr>>

\* receiver <- false of the timeout case, then ticker.Stop(), and the loop
\* goes on
SendTimeoutDeliver ==
    /\ pc = "sendTimeout"
    /\ CallerWaiting
    /\ delivered' = Append(delivered,
                           [val |-> FALSE, calls |-> describeCalls, at |-> clock])
    /\ tickerStopped' = TRUE
    /\ pc' = "select"
    /\ UNCHANGED <<notWaitVars, rdstypes, clock, tickC, timeoutC, timeoutFired, db,
                   rds_status, describeCalls, sendAttempts, firstAvail,
                   describeErr, timeoutTaken>>

WaitNext ==
    \/ Elapse
    \/ TimeoutFire
    \/ TickCase
    \/ DescribeReturn
    \/ SendErrDeliver
    \/ Deref
    \/ CheckStatus
    \/ SendTrueDeliver
    \/ TimeoutCase
    \/ SendTimeoutDeliver

(***************************************************************************)
(* Tag registry: checkListTagsForResourceMessage and Describe...ByTags     *)
(***************************************************************************)

\* the most resources the provider lists, and the longest tag list
MaxResources == 3
MaxTags == 3

\* const rt_name_text, rt_time_text
rt_name_text == "rt_name"
rt_time_text == "rt_time"

\* utils.GetFormatedAppName(): the fixed application name, as characters
GetFormatedAppName == <<"r", "t">>

\* strings.HasPrefix
HasPrefix(str, prefix) ==
    /\ Len(str) >= Len(prefix)
    /\ SubSeq(str, 1, Len(prefix)) = prefix

\* tag keys and values the provider may hold; the provider keeps the keys of
\* one resource distinct
TagKeys == {rt_name_text, rt_time_text, "Name", "env"}
TagValues == {GetFormatedAppName, GetFormatedAppName \o <<"1">>, <<"r">>,
              <<"x", "t", "1">>}
Tags == {[Key |-> rt_name_text, Value |-> v] : v \in TagValues}
          \cup {[Key |-> k, Value |-> <<"1">>] : k \in TagKeys \ {rt_name_text}}
TagLists ==
    {l \in UNION {[1..n -> Tags] : n \in 0..MaxTags} :
        \A i, j \in 1..Len(l) : l[i].Key = l[j].Key => i = j}

\* what the provider answers to ListTagsForResource
ListTagsResponses ==
    {[err |-> TRUE, TagList |-> <<>>]}
      \cup {[err |-> FALSE, TagList |-> l] : l \in TagLists}

\* getARNString: ARNPrefix + "snapshot:" / "db:" + identifier, empty for
\* another type
getARNString(kind, id) ==
    IF kind = "snapshot" THEN <<"ARNPrefix", "snapshot:", id>>
    ELSE IF kind = "instance" THEN <<"ARNPrefix", "db:", id>>
    ELSE <<>>

\* the tag_cnt loop of checkListTagsForResourceMessage
RECURSIVE TagCount(_)
TagCount(tagList) ==
    IF tagList = <<>> THEN 0
    ELSE LET tag == Head(tagList)
             hit == IF tag.Key = rt_name_text
                      THEN (IF HasPrefix(tag.Value, GetFormatedAppName)
                              THEN 1 ELSE 0)
                    ELSE IF tag.Key = rt_time_text THEN 1
                    ELSE 0
         IN hit + TagCount(Tail(tagList))

\* a variant that is satisfied with one matching tag
checkListTagsOneMatch(tag_resp) ==
    IF tag_resp.err THEN [state |-> FALSE, err |-> TRUE]
    ELSE IF Len(tag_resp.TagList) <= 0 THEN [state |-> FALSE, err |-> FALSE]
    ELSE IF TagCount(tag_resp.TagList) >= 1 THEN [state |-> TRUE, err |-> FALSE]
    ELSE [state |-> FALSE, err |-> FALSE]

\* checkListTagsForResourceMessage, given the provider's answer
checkListTagsForResourceMessage(tag_resp) ==
    IF tag_resp.err THEN [state |-> FALSE, err |-> TRUE]
    ELSE IF Len(tag_resp.TagList) <= 0 THEN [state |-> FALSE, err |-> FALSE]
    ELSE IF TagCount(tag_resp.TagList) >= 2 THEN [state |-> TRUE, err |-> FALSE]
    ELSE [state |-> FALSE, err |-> FALSE]

\* what a tag list holds, stated without counting
HasNameTag(tagList) ==
    \E i \in 1..Len(tagList) :
        /\ tagList[i].Key = rt_name_text
        /\ HasPrefix(tagList[i].Value, GetFormatedAppName)
HasTimeTag(tagList) ==
    \E i \in 1..Len(tagList) : tagList[i].Key = rt_time_text

TagInit ==
    /\ tagOp \in {"instances", "snapshots"}
    /\ tagPc = "start"
    /\ dbList = Nil
    /\ tagIdx = 0
    /\ dbOwned = <<>>
    /\ tagResult = <<>>
    /\ tagErr = FALSE
    /\ listCalls = <<>>
    /\ tagFacts = <<>>

TagIdle ==
    /\ tagOp = "none"
    /\ tagPc = "idle"
    /\ dbList = Nil
    /\ tagIdx = 0
    /\ dbOwned = <<>>
    /\ tagResult = <<>>
    /\ tagErr = FALSE
    /\ listCalls = <<>>
    /\ tagFacts = <<>>

\* the provider's list: resources with the identifiers 1..n, or an error
\* describeDBInstances / describeDBSnapshots and the error return after it
DescribeAll(op) ==
    /\ tagOp = op
    /\ tagPc = "start"
    /\ \/ /\ tagErr' = TRUE
          /\ tagResult' = <<>>
          /\ tagPc' = "done"
          /\ UNCHANGED <<dbList, tagIdx>>
       \/ \E n \in 0..MaxResources :
            /\ dbList' = [i \in 1..n |-> i]
            /\ tagIdx' = 1
            /\ tagPc' = "loop"
            /\ UNCHANGED <<tagErr, tagResult>>
    /\ UNCHANGED <<tagOp, dbOwned, listCalls, tagFacts>>

\* a variant of the loop body that returns what it has found when a
\* list-tags call fails
FilterStepPartial(op, kind) ==
    /\ tagOp = op
    /\ tagPc = "loop"
    /\ tagIdx <= Len(dbList)
    /\ \E tag_resp \in ListTagsResponses :
         LET r == checkListTagsForResourceMessage(tag_resp)
         IN /\ listCalls' = Append(listCalls, getARNString(kind, dbList[tagIdx]))
            /\ tagFacts' = Append(tagFacts,
                  [err |-> tag_resp.err,
                   name |-> HasNameTag(tag_resp.TagList),
                   time |-> HasTimeTag(tag_resp.TagList),
                   state |-> r.state])
            /\ IF r.err
                 THEN /\ tagErr' = TRUE
                      /\ tagResult' = dbOwned
                      /\ tagPc' = "done"
                      /\ UNCHANGED <<dbOwned, tagIdx>>
                 ELSE /\ dbOwned' = IF r.state THEN Append(dbOwned, dbList[tagIdx])
                                               ELSE dbOwned
                      /\ tagIdx' = tagIdx + 1
                      /\ UNCHANGED <<tagErr, tagResult, tagPc>>
    /\ UNCHANGED <<tagOp, dbList>>

\* a variant of the loop body that puts an owned element in front
FilterStepPrepend(op, kind) ==
    /\ tagOp = op
    /\ tagPc = "loop"
    /\ tagIdx <= Len(dbList)
    /\ \E tag_resp \in ListTagsResponses :
         LET r == checkListTagsForResourceMessage(tag_resp)
         IN /\ listCalls' = Append(listCalls, getARNString(kind, dbList[tagIdx]))
            /\ tagFacts' = Append(tagFacts,
                  [err |-> tag_resp.err,
                   name |-> HasNameTag(tag_resp.TagList),
                   time |-> HasTimeTag(tag_resp.TagList),
                   state |-> r.state])
            /\ IF r.err
                 THEN /\ tagErr' = TRUE
                      /\ tagResult' = <<>>
                      /\ tagPc' = "done"
                      /\ UNCHANGED <<dbOwned, tagIdx>>
                 ELSE /\ dbOwned' = IF r.state THEN <<dbList[tagIdx]>> \o dbOwned
                                               ELSE dbOwned
                      /\ tagIdx' = tagIdx + 1
                      /\ UNCHANGED <<tagErr, tagResult, tagPc>>
    /\ UNCHANGED <<tagOp, dbList>>

\* one iteration of the range loop: the list-tags call for the element, the
\* return of nil and the error when it fails, the append when it is owned
FilterStep(op, kind) ==
    /\ tagOp = op
    /\ tagPc = "loop"
    /\ tagIdx <= Len(dbList)
    /\ \E tag_resp \in ListTagsResponses :
         LET r == checkListTagsForResourceMessage(tag_resp)
         IN /\ listCalls' = Append(listCalls, getARNString(kind, dbList[tagIdx]))
            /\ tagFacts' = Append(tagFacts,
                  [err |-> tag_resp.err,
                   name |-> HasNameTag(tag_resp.TagList),
                   time |-> HasTimeTag(tag_resp.TagList),
                   state |-> r.state])
            /\ IF r.err
                 THEN /\ tagErr' = TRUE
                      /\ tagResult' = <<>>
                      /\ tagPc' = "done"
                      /\ UNCHANGED <<dbOwned, tagIdx>>
                 ELSE /\ dbOwned' = IF r.state THEN Append(dbOwned, dbList[tagIdx])
                                               ELSE dbOwned
                      /\ tagIdx' = tagIdx + 1
                      /\ UNCHANGED <<tagErr, tagResult, tagPc>>
    /\ UNCHANGED <<tagOp, dbList>>

\* the return after the loop: the owned elements and a nil error
FilterReturn(op) ==
    /\ tagOp = op
    /\ tagPc = "loop"
    /\ tagIdx > Len(dbList)
    /\ tagResult' = dbOwned
    /\ tagErr' = FALSE
    /\ tagPc' = "done"
    /\ UNCHANGED <<tagOp, dbList, tagIdx, dbOwned, listCalls, tagFacts>>

\* DescribeDBInstancesByTags: the describe call, the loop, the return
InstancesDescribe == DescribeAll("instances") /\ UNCHANGED notTagVars
InstancesFilterStep == FilterStep("instances", "instance") /\ UNCHANGED notTagVars
InstancesReturn == FilterReturn("instances") /\ UNCHANGED notTagVars

\* DescribeDBSnapshotsByTags: the describe call, the loop, the return
SnapshotsDescribe == DescribeAll("snapshots") /\ UNCHANGED notTagVars
SnapshotsFilterStep == FilterStep("snapshots", "snapshot") /\ UNCHANGED notTagVars
SnapshotsReturn == FilterReturn("snapshots") /\ UNCHANGED notTagVars

TagNext ==
    \/ InstancesDescribe
    \/ InstancesFilterStep
    \/ InstancesReturn
    \/ SnapshotsDescribe
    \/ SnapshotsFilterStep
    \/ SnapshotsReturn

(***************************************************************************)
(* Query executor: ExecuteSQL                                              *)
(***************************************************************************)

\* the most queries of a batch
MaxQueries == 3

\* elapsed times e_time.Sub(s_time) a query may take
Durations == {1, 2}
\* numbers of columns of a result set
ColumnCounts == {0, 2}

\* engine names handed to ExecuteSQL
Engines == {<<"M", "y", "S", "Q", "L">>, <<"m", "y", "s", "q", "l", "5">>,
            <<"o", "r", "a", "c", "l", "e">>, <<"a", "u", "r", "o", "r", "a">>}

\* strings.ToLower, on the letters the engine names use
LowerOf(c) ==
    CASE c = "M" -> "m" [] c = "S" -> "s" [] c = "Q" -> "q" [] c = "L" -> "l"
      [] OTHER -> c
ToLower(str) == [i \in 1..Len(str) |-> LowerOf(str[i])]

\* strings.Contains
Contains(str, sub) ==
    \E i \in 1..(Len(str) - Len(sub) + 1) : SubSeq(str, i, i + Len(sub) - 1) = sub

\* getDbOpenValues: the driver name for an engine name, "" when none matches
getDbOpenValues(eng) ==
    LET e == ToLower(eng)
    IN IF Contains(e, <<"m", "y", "s", "q", "l">>) THEN "mysql"
       ELSE IF Contains(e, <<"o", "r", "a", "c", "l", "e">>) THEN "oracle"
       ELSE IF Contains(e, <<"s", "q", "l", "s", "e", "r", "v", "e", "r">>)
         THEN "sqlserver"
       ELSE IF Contains(e, <<"p", "o", "s", "t", "g", "r", "e", "s">>)
         THEN "postgres"
       ELSE ""

\* what db.Query answers: an error, or a result set after some time
QueryOutcomes ==
    {[fail |-> TRUE, dur |-> 0, cols |-> 0]}
      \cup {[fail |-> FALSE, dur |-> d, cols |-> c] :
              d \in Durations, c \in ColumnCounts}

SqlInit ==
    /\ engine \in Engines
    /\ outFile \in BOOLEAN
    /\ nQueries \in 0..MaxQueries
    /\ sqlPc = "start"
    /\ qIdx = 0
    /\ times = Nil
    /\ sqlTimes = Nil
    /\ sqlErr = "nil"
    /\ sqlLog = <<>>
    /\ qFacts = <<>>
    /\ exports = <<>>

SqlIdle ==
    /\ engine = <<>>
    /\ outFile = FALSE
    /\ nQueries = 0
    /\ sqlPc = "idle"
    /\ qIdx = 0
    /\ times = Nil
    /\ sqlTimes = Nil
    /\ sqlErr = "nil"
    /\ sqlLog = <<>>
    /\ qFacts = <<>>
    /\ exports = <<>>

\* from the entry to the range loop: the driver lookup, sql.Open, the defer
\* of db.Close, times := make(...)
SqlOpen ==
    /\ sqlPc = "start"
    /\ IF getDbOpenValues(engine) = ""
         THEN /\ sqlErr' = "ErrDriverNotFound"
              /\ sqlTimes' = Nil
              /\ sqlPc' = "done"
              /\ UNCHANGED <<times, qIdx, sqlLog>>
         ELSE \/ /\ sqlErr' = "open"
                 /\ sqlTimes' = Nil
                 /\ sqlPc' = "done"
                 /\ UNCHANGED <<times, qIdx, sqlLog>>
              \/ /\ sqlLog' = Append(sqlLog, <<"open">>)
                 /\ times' = <<>>
                 /\ qIdx' = 1
                 /\ sqlPc' = "loop"
                 /\ UNCHANGED <<sqlErr, sqlTimes>>
    /\ UNCHANGED <<engine, outFile, nQueries, qFacts, exports>>
    /\ UNCHANGED notSqlVars

\* what can fail on the output file of writeCSVFile: nothing, os.OpenFile,
\* file.Truncate, the writes of the csv writer
CsvIoFaults == {"none", "open", "truncate", "write"}

\* the bool writeCSVFile returns: false from the return under the error of
\* args.Rows.Columns(), true from the return at the end of the function
writeCSVFile(colsErr) == ~colsErr

\* the export of one result in ExecuteSQL: when c.OutConfig.File is set and
\* the result has a column, the writeCSVFile call; out_state is only logged
ExportResult(out) ==
    IF outFile /\ out.cols > 0
      THEN \E colsErr \in BOOLEAN, io \in CsvIoFaults :
             exports' = Append(exports, [query |-> qIdx,
                                         ok |-> writeCSVFile(colsErr),
                                         io |-> io])
      ELSE UNCHANGED exports

\* a variant of the loop body that returns an error when the export of a
\* result fails
SqlQueryAbortOnExportFailure ==
    /\ sqlPc = "loop"
    /\ qIdx <= nQueries
    /\ \E out \in QueryOutcomes :
         /\ qFacts' = Append(qFacts, out)
         /\ IF out.fail
              THEN /\ sqlLog' = sqlLog \o
                          <<<<"query", qIdx>>, <<"close">>, <<"return">>>>
                   /\ sqlTimes' = times
                   /\ sqlErr' = "query"
                   /\ sqlPc' = "done"
                   /\ UNCHANGED <<times, qIdx, exports>>
              ELSE /\ times' = Append(times, out.dur)
                   /\ ExportResult(out)
                   /\ IF /\ Len(exports') > Len(exports)
                         /\ LET e == exports'[Len(exports')]
                            IN ~e.ok \/ e.io # "none"
                        THEN /\ sqlLog' = sqlLog \o
                                   <<<<"query", qIdx>>, <<"close">>, <<"return">>>>
                             /\ sqlTimes' = times'
                             /\ sqlErr' = "export"
                             /\ sqlPc' = "done"
                             /\ UNCHANGED qIdx
                        ELSE /\ sqlLog' = Append(sqlLog, <<"query", qIdx>>)
                             /\ qIdx' = qIdx + 1
                             /\ UNCHANGED <<sqlTimes, sqlErr, sqlPc>>
    /\ UNCHANGED <<engine, outFile, nQueries>>
    /\ UNCHANGED notSqlVars

\* a variant of the loop body that logs a failed query and goes on to the
\* next one
SqlQuerySkipFailed ==
    /\ sqlPc = "loop"
    /\ qIdx <= nQueries
    /\ \E out \in QueryOutcomes :
         /\ qFacts' = Append(qFacts, out)
         /\ IF out.fail
              THEN /\ sqlLog' = Append(sqlLog, <<"query", qIdx>>)
                   /\ qIdx' = qIdx + 1
                   /\ UNCHANGED <<sqlTimes, sqlErr, sqlPc, times, exports>>
              ELSE /\ sqlLog' = Append(sqlLog, <<"query", qIdx>>)
                   /\ times' = Append(times, out.dur)
                   /\ ExportResult(out)
                   /\ qIdx' = qIdx + 1
                   /\ UNCHANGED <<sqlTimes, sqlErr, sqlPc>>
    /\ UNCHANGED <<engine, outFile, nQueries>>
    /\ UNCHANGED notSqlVars

\* a variant of the loop body that leaves the connection open when a query
\* fails
SqlQueryNoCloseOnError ==
    /\ sqlPc = "loop"
    /\ qIdx <= nQueries
    /\ \E out \in QueryOutcomes :
         /\ qFacts' = Append(qFacts, out)
         /\ IF out.fail
              THEN /\ sqlLog' = sqlLog \o <<<<"query", qIdx>>, <<"return">>>>
                   /\ sqlTimes' = times
                   /\ sqlErr' = "query"
                   /\ sqlPc' = "done"
                   /\ UNCHANGED <<times, qIdx, exports>>
              ELSE /\ sqlLog' = Append(sqlLog, <<"query", qIdx>>)
                   /\ times' = Append(times, out.dur)
                   /\ ExportResult(out)
                   /\ qIdx' = qIdx + 1
                   /\ UNCHANGED <<sqlTimes, sqlErr, sqlPc>>
    /\ UNCHANGED <<engine, outFile, nQueries>>
    /\ UNCHANGED notSqlVars

\* one iteration of the range loop: db.Query; on its error the return of
\* times and the error, with the deferred db.Close; else the append of the
\* elapsed time, the export of the result when it is enabled and the result
\* has a column, result.Close
SqlQuery ==
    /\ sqlPc = "loop"
    /\ qIdx <= nQueries
    /\ \E out \in QueryOutcomes :
         /\ qFacts' = Append(qFacts, out)
         /\ IF out.fail
              THEN /\ sqlLog' = sqlLog \o
                          <<<<"query", qIdx>>, <<"close">>, <<"return">>>>
                   /\ sqlTimes' = times
                   /\ sqlErr' = "query"
                   /\ sqlPc' = "done"
                   /\ UNCHANGED <<times, qIdx, exports>>
              ELSE /\ sqlLog' = Append(sqlLog, <<"query", qIdx>>)
                   /\ times' = Append(times, out.dur)
                   /\ ExportResult(out)
                   /\ qIdx' = qIdx + 1
                   /\ UNCHANGED <<sqlTimes, sqlErr, sqlPc>>
    /\ UNCHANGED <<engine, outFile, nQueries>>
    /\ UNCHANGED notSqlVars

\* return times, nil after the loop, with the deferred db.Close
SqlReturn ==
    /\ sqlPc = "loop"
    /\ qIdx > nQueries
    /\ sqlTimes' = times
    /\ sqlErr' = "nil"
    /\ sqlLog' = sqlLog \o <<<<"close">>, <<"return">>>>
    /\ sqlPc' = "done"
    /\ UNCHANGED <<engine, outFile, nQueries, qIdx, times, qFacts, exports>>
    /\ UNCHANGED notSqlVars

SqlNext ==
    \/ SqlOpen
    \/ SqlQuery
    \/ SqlReturn

(***************************************************************************)
(* Creation of tagged resources: getSpecifyTags,                           *)
(* RestoreDBInstanceFromDBSnapshot, CreateDBSnapshot                       *)
(***************************************************************************)

\* the most resources created, the most checks of them, the latest time
MaxCreated == 2
MaxChecks == 2
MaxNow == 2

\* utils.GetFormatedTime(): the current time as text
GetFormatedTime(t) == <<"T", t>>

\* a variant of getSpecifyTags that forgets the time tag
getSpecifyTagsNameOnly(t) ==
    <<[Key |-> rt_name_text, Value |-> GetFormatedAppName]>>

\* getSpecifyTags: the name tag and the time tag, in this order
getSpecifyTags(t) ==
    <<[Key |-> rt_name_text, Value |-> GetFormatedAppName],
      [Key |-> rt_time_text, Value |-> GetFormatedTime(t)]>>

CreateInit ==
    /\ now = 0
    /\ created = <<>>
    /\ ownedChecks = <<>>

\* time passes
ClockTick ==
    /\ now < MaxNow
    /\ now' = now + 1
    /\ UNCHANGED <<created, ownedChecks>>
    /\ UNCHANGED notCreateVars

\* the provider creates the resource of a creation message, with the tags of
\* the message, under the next free identifier
ProviderCreate(kind, message) ==
    Append(created, [kind |-> kind, id |-> Len(created) + 1, Tags |-> message.Tags])

\* RestoreDBInstanceFromDBSnapshot: the message with Tags: getSpecifyTags(),
\* the call, the provider creating the instance; a call the provider refuses
\* creates nothing and leaves this state as it is
RestoreDBInstanceFromDBSnapshot ==
    /\ Len(created) < MaxCreated
    /\ LET message == [DBInstanceIdentifier |-> Len(created) + 1,
                       Tags |-> getSpecifyTags(now)]
       IN created' = ProviderCreate("instance", message)
    /\ UNCHANGED <<now, ownedChecks>>
    /\ UNCHANGED notCreateVars

\* CreateDBSnapshot: the message with Tags: getSpecifyTags(), the call, the
\* provider creating the snapshot; a call the provider refuses creates
\* nothing and leaves this state as it is
CreateDBSnapshot ==
    /\ Len(created) < MaxCreated
    /\ LET message == [DBSnapshotIdentifier |-> Len(created) + 1,
                       Tags |-> getSpecifyTags(now)]
       IN created' = ProviderCreate("snapshot", message)
    /\ UNCHANGED <<now, ownedChecks>>
    /\ UNCHANGED notCreateVars

\* the provider's answer to ListTagsForResource for an ARN: the tags of the
\* resource with that ARN, or an error
ProviderListTags(arn) ==
    LET hits == {j \in 1..Len(created) :
                    getARNString(created[j].kind, created[j].id) = arn}
    IN {[err |-> TRUE, TagList |-> <<>>]}
         \cup {[err |-> FALSE, TagList |-> created[j].Tags] : j \in hits}

\* checkListTagsForResourceMessage on a created resource
CheckCreated ==
    /\ Len(ownedChecks) < MaxChecks
    /\ \E i \in 1..Len(created) :
         \E tag_resp \in ProviderListTags(getARNString(created[i].kind, created[i].id)) :
            LET r == checkListTagsForResourceMessage(tag_resp)
            IN ownedChecks' = Append(ownedChecks,
                                [of |-> i, err |-> r.err, state |-> r.state])
    /\ UNCHANGED <<now, created>>
    /\ UNCHANGED notCreateVars

CreateNext ==
    \/ ClockTick
    \/ RestoreDBInstanceFromDBSnapshot
    \/ CreateDBSnapshot
    \/ CheckCreated

(***************************************************************************)
(* DescribeLatestDBSnapshot                                                *)
(***************************************************************************)

\* the most snapshots the provider holds
MaxSnapshots == 3

\* status strings of snapshots, and the instances they belong to
SnapshotStatuses == {Available, "creating", "deleting"}
InstanceIds == {"db1", "db2"}

\* the snapshots the provider may hold, in its order, each with the
\* identifier of its position
ProviderSnapshots ==
    UNION {{[i \in 1..n |-> [DBSnapshotIdentifier |-> i,
                            DBInstanceIdentifier |-> f[i][1],
                            Status |-> f[i][2]]] :
              f \in [1..n -> InstanceIds \X SnapshotStatuses]} :
           n \in 0..MaxSnapshots}

\* the provider's DescribeDBSnapshots for a message with DBInstanceIdentifier:
\* the snapshots of that instance, in the provider's order
ProviderDescribeSnapshots(held, dbIdentifier) ==
    SelectSeq(held, LAMBDA snap : snap.DBInstanceIdentifier = dbIdentifier)

\* a variant of DescribeLatestDBSnapshot without the filter by status
DescribeLatestNoFilter(resp) ==
    IF resp.err THEN [ptr |-> Nil, err |-> "provider"]
    ELSE IF Len(resp.list) < 1 THEN [ptr |-> Nil, err |-> "ErrSnapshotNotFound"]
    ELSE [ptr |-> resp.list[Len(resp.list)], err |-> "nil"]

\* DescribeLatestDBSnapshot, given the provider's answer: nil and the error
\* on a provider error; else the last of the snapshots with status
\* "available", ErrSnapshotNotFound when there is none
DescribeLatestDBSnapshot(resp) ==
    IF resp.err THEN [ptr |-> Nil, err |-> "provider"]
    ELSE LET dbSnapshots == SelectSeq(resp.list, LAMBDA snap : snap.Status = Available)
             db_len == Len(dbSnapshots)
         IN IF db_len < 1 THEN [ptr |-> Nil, err |-> "ErrSnapshotNotFound"]
            ELSE [ptr |-> dbSnapshots[db_len], err |-> "nil"]

LatestInit ==
    /\ lsResp \in {[err |-> TRUE, list |-> <<>>]}
                    \cup {[err |-> FALSE,
                           list |-> ProviderDescribeSnapshots(held, "db1")] :
                            held \in ProviderSnapshots}
    /\ lsPc = "start"
    /\ lsResult = Nil
    /\ lsErr = "nil"

\* the call of DescribeLatestDBSnapshot("db1")
DescribeLatest ==
    /\ lsPc = "start"
    /\ LET r == DescribeLatestDBSnapshot(lsResp)
       IN /\ lsResult' = r.ptr
          /\ lsErr' = r.err
    /\ lsPc' = "done"
    /\ UNCHANGED lsResp
    /\ UNCHANGED notLatestVars

LatestNext == DescribeLatest

(***************************************************************************)
(* DeleteDBResources                                                       *)
(***************************************************************************)

\* the most identifiers a list to delete is made of
MaxDeleteIds == 3

\* the lists handed to DeleteDBResources: distinct identifiers in any order
DeleteLists ==
    {l \in UNION {[1..n -> 1..MaxDeleteIds] : n \in 0..MaxDeleteIds} :
        \A i, j \in 1..Len(l) : l[i] = l[j] => i = j}

DeleteInit ==
    /\ delKind \in {"snapshots", "instances", "other"}
    /\ delList \in DeleteLists
    /\ delPc = "loop"
    /\ delIdx = 1
    /\ delCalls = <<>>
    /\ delDeleted = <<>>
    /\ delErr = Nil

\* a variant of the snapshot loop that goes on after a failed delete
DeleteSnapshotStepGoOn ==
    /\ delKind = "snapshots"
    /\ delPc = "loop"
    /\ delIdx <= Len(delList)
    /\ delCalls' = Append(delCalls, <<"DeleteDBSnapshot", delList[delIdx]>>)
    /\ \/ /\ delDeleted' = Append(delDeleted, delList[delIdx])
          /\ delIdx' = delIdx + 1
          /\ UNCHANGED <<delErr, delPc>>
       \/ /\ delIdx' = delIdx + 1
          /\ UNCHANGED <<delDeleted, delErr, delPc>>
    /\ UNCHANGED <<delKind, delList>>
    /\ UNCHANGED notDeleteVars

\* case []rds.DBSnapshot, one iteration: the DeleteDBSnapshot call, the
\* return of its error, else the log line
DeleteSnapshotStep ==
    /\ delKind = "snapshots"
    /\ delPc = "loop"
    /\ delIdx <= Len(delList)
    /\ delCalls' = Append(delCalls, <<"DeleteDBSnapshot", delList[delIdx]>>)
    /\ \/ /\ delDeleted' = Append(delDeleted, delList[delIdx])
          /\ delIdx' = delIdx + 1
          /\ UNCHANGED <<delErr, delPc>>
       \/ /\ delErr' = TRUE
          /\ delPc' = "done"
          /\ UNCHANGED <<delDeleted, delIdx>>
    /\ UNCHANGED <<delKind, delList>>
    /\ UNCHANGED notDeleteVars

\* case []rds.DBInstance, one iteration: the DeleteDBInstance call, the
\* return of its error, else the log line
DeleteInstanceStep ==
    /\ delKind = "instances"
    /\ delPc = "loop"
    /\ delIdx <= Len(delList)
    /\ delCalls' = Append(delCalls, <<"DeleteDBInstance", delList[delIdx]>>)
    /\ \/ /\ delDeleted' = Append(delDeleted, delList[delIdx])
          /\ delIdx' = delIdx + 1
          /\ UNCHANGED <<delErr, delPc>>
       \/ /\ delErr' = TRUE
          /\ delPc' = "done"
          /\ UNCHANGED <<delDeleted, delIdx>>
    /\ UNCHANGED <<delKind, delList>>
    /\ UNCHANGED notDeleteVars

\* return nil after the loop of either case
DeleteReturn ==
    /\ delKind \in {"snapshots", "instances"}
    /\ delPc = "loop"
    /\ delIdx > Len(delList)
    /\ delErr' = FALSE
    /\ delPc' = "done"
    /\ UNCHANGED <<delKind, delList, delIdx, delCalls, delDeleted>>
    /\ UNCHANGED notDeleteVars

\* a variant of the default case that returns ErrRdsTypesNotFound
DeleteDefaultReturnsError ==
    /\ delKind = "other"
    /\ delPc = "loop"
    /\ delErr' = TRUE
    /\ delPc' = "done"
    /\ UNCHANGED <<delKind, delList, delIdx, delCalls, delDeleted>>
    /\ UNCHANGED notDeleteVars

\* the default case: the error is logged, then return nil
DeleteDefault ==
    /\ delKind = "other"
    /\ delPc = "loop"
    /\ delErr' = FALSE
    /\ delPc' = "done"
    /\ UNCHANGED <<delKind, delList, delIdx, delCalls, delDeleted>>
    /\ UNCHANGED notDeleteVars

DeleteNext ==
    \/ DeleteSnapshotStep
    \/ DeleteInstanceStep
    \/ DeleteReturn
    \/ DeleteDefault

(***************************************************************************)
(* writeCSVFile                                                            *)
(***************************************************************************)

\* the most rows a result set has
MaxRows == 2

\* a column value as the driver hands it to Rows.Scan: NULL, or a text
NullValue == [null |-> TRUE, text |-> <<>>]
TextValue(t) == [null |-> FALSE, text |-> t]

\* the column values of the result sets
CsvValues ==
    {NullValue, TextValue(<<"1">>), TextValue(<<"2">>), TextValue(<<"a">>),
     TextValue(<<"\"", ",">>)}

\* the column names of the result sets
CsvColumnSets == {<<<<"i", "d">>>>, <<<<"i", "d">>, <<"n", "a", "m", "e">>>>}

\* the values a column holds: id is a number column, name a text column
ColumnValues(col) ==
    IF col = <<"i", "d">>
      THEN {NullValue, TextValue(<<"1">>), TextValue(<<"2">>)}
      ELSE {NullValue, TextValue(<<"a">>), TextValue(<<"\"", ",">>)}

\* the rows a result set with these columns gives
RowsOf(cols) ==
    {row \in [1..Len(cols) -> CsvValues] :
        \A i \in 1..Len(cols) : row[i] \in ColumnValues(cols[i])}

\* how much of the text a failed write leaves in the file: nothing, or all
\* but the last byte
FailedWriteLengths(text) == {0, Len(text) - 1}

\* the content of a file that is at out_path before the call
CsvOld == <<"o", "l", "d", "\n">>

\* the record of the BOM line: BOM + "# character encoding : utf-8 with BOM"
BomRecord == <<<<"BOM", "# character encoding : utf-8 with BOM">>>>

\* csv.Writer: does the field need quotes
fieldNeedsQuotes(field) ==
    /\ field # <<>>
    /\ \/ field = <<"\\", ".">>
       \/ \E i \in 1..Len(field) : field[i] \in {",", "\"", "\r", "\n"}
       \/ field[1] = " "

\* csv.Writer: the inside of a quoted field, every quote doubled
RECURSIVE QuotedText(_)
QuotedText(field) ==
    IF field = <<>> THEN <<>>
    ELSE (IF Head(field) = "\"" THEN <<"\"", "\"">> ELSE <<Head(field)>>)
           \o QuotedText(Tail(field))

\* csv.Writer: one field as it is written
EncodeField(field) ==
    IF fieldNeedsQuotes(field)
      THEN <<"\"">> \o QuotedText(field) \o <<"\"">>
      ELSE field

\* csv.Writer: the fields of a record with a comma between two of them
RECURSIVE EncodeFields(_)
EncodeFields(record) ==
    IF record = <<>> THEN <<>>
    ELSE IF Len(record) = 1 THEN EncodeField(record[1])
    ELSE EncodeField(Head(record)) \o <<",">> \o EncodeFields(Tail(record))

\* writer.Write(record): the fields and the line end
EncodeRecord(record) == EncodeFields(record) \o <<"\n">>

\* a variant of the conversion that writes a nil raw value as the empty text
ResultOfNullAsEmpty(raw) ==
    [i \in 1..Len(raw) |-> raw[i].text]

\* the conversion of the scanned values of a row: "null" for a nil raw value,
\* string(raw) otherwise
ResultOf(raw) ==
    [i \in 1..Len(raw) |->
        IF raw[i].null THEN <<"n", "u", "l", "l">> ELSE raw[i].text]

\* a write at offset 0 of a file that was not truncated
Overwrite(new, old) ==
    IF Len(new) >= Len(old) THEN new
    ELSE new \o SubSeq(old, Len(new) + 1, Len(old))

CsvInit ==
    /\ csvPc = "start"
    /\ csvBom \in BOOLEAN
    /\ csvCols \in CsvColumnSets
    /\ csvColsErr = FALSE
    /\ csvIo = "none"
    /\ csvRows = <<>>
    /\ csvBuf = <<>>
    /\ csvFile \in {<<>>, CsvOld}
    /\ rawResult = <<>>
    /\ csvScans = <<>>
    /\ csvRet = Nil

\* from the entry to the row loop: args.Rows.Columns() and the return of
\* false under its error; os.OpenFile and file.Truncate(0), whose errors are
\* dropped; the BOM line; the header; the scan destinations
CsvOpen ==
    /\ csvPc = "start"
    /\ \/ /\ csvColsErr' = TRUE
          /\ csvRet' = writeCSVFile(TRUE)
          /\ csvPc' = "done"
          /\ UNCHANGED <<csvIo, csvBuf, csvFile, rawResult>>
       \/ /\ \E io \in {"none", "open", "truncate"} :
               /\ csvIo' = io
               /\ csvFile' = IF io = "none" THEN <<>> ELSE csvFile
          /\ csvBuf' = (IF csvBom THEN EncodeRecord(BomRecord) ELSE <<>>)
                         \o EncodeRecord(csvCols)
          /\ rawResult' = [i \in 1..Len(csvCols) |-> NullValue]
          /\ csvPc' = "rows"
          /\ UNCHANGED <<csvColsErr, csvRet>>
    /\ UNCHANGED <<csvBom, csvCols, csvRows, csvScans>>
    /\ UNCHANGED notCsvVars

\* one iteration of the row loop: args.Rows.Next() is true; Rows.Scan fills
\* the destinations column by column and stops at the column it cannot
\* convert, its error is logged; the conversion; writer.Write(result)
CsvRow ==
    /\ csvPc = "rows"
    /\ Len(csvRows) < MaxRows
    /\ \E row \in RowsOf(csvCols), k \in 0..Len(csvCols) :
         /\ csvRows' = Append(csvRows, row)
         /\ csvScans' = Append(csvScans, k)
         /\ rawResult' = [i \in 1..Len(csvCols) |->
                            IF k = 0 \/ i < k THEN row[i] ELSE rawResult[i]]
         /\ csvBuf' = csvBuf \o EncodeRecord(ResultOf(rawResult'))
    /\ UNCHANGED <<csvPc, csvBom, csvCols, csvColsErr, csvIo, csvFile, csvRet>>
    /\ UNCHANGED notCsvVars

\* args.Rows.Next() is false: writer.Flush(), whose error is not looked at,
\* the deferred file.Close(), return true
CsvFinish ==
    /\ csvPc = "rows"
    /\ \/ /\ csvIo = "none"
          /\ csvFile' = csvBuf
          /\ UNCHANGED csvIo
       \/ /\ csvIo = "none"
          /\ csvIo' = "write"
          /\ \E n \in FailedWriteLengths(csvBuf) : csvFile' = SubSeq(csvBuf, 1, n)
       \/ /\ csvIo = "truncate"
          /\ csvFile' = Overwrite(csvBuf, csvFile)
          /\ UNCHANGED csvIo
       \/ /\ csvIo = "open"
          /\ UNCHANGED <<csvFile, csvIo>>
    /\ csvRet' = writeCSVFile(FALSE)
    /\ csvPc' = "done"
    /\ UNCHANGED <<csvBom, csvCols, csvColsErr, csvRows, csvBuf, rawResult, csvScans>>
    /\ UNCHANGED notCsvVars

CsvNext ==
    \/ CsvOpen
    \/ CsvRow
    \/ CsvFinish

(***************************************************************************)
(* Specifications                                                          *)
(***************************************************************************)

CreateIdle ==
    /\ now = 0
    /\ created = <<>>
    /\ ownedChecks = <<>>

LatestIdle ==
    /\ lsResp = Nil
    /\ lsPc = "idle"
    /\ lsResult = Nil
    /\ lsErr = "nil"

DeleteIdle ==
    /\ delKind = "none"
    /\ delList = <<>>
    /\ delPc = "idle"
    /\ delIdx = 0
    /\ delCalls = <<>>
    /\ delDeleted = <<>>
    /\ delErr = Nil

CsvIdle ==
    /\ csvPc = "idle"
    /\ csvBom = FALSE
    /\ csvCols = <<>>
    /\ csvColsErr = FALSE
    /\ csvIo = "none"
    /\ csvRows = <<>>
    /\ csvBuf = <<>>
    /\ csvFile = <<>>
    /\ rawResult = <<>>
    /\ csvScans = <<>>
    /\ csvRet = Nil

WaitSpecInit ==
    WaitInit /\ TagIdle /\ SqlIdle /\ CreateIdle /\ LatestIdle /\ DeleteIdle /\ CsvIdle

WaitSpec == WaitSpecInit /\ [][WaitNext]_vars

TagSpecInit ==
    TagInit /\ WaitIdle /\ SqlIdle /\ CreateIdle /\ LatestIdle /\ DeleteIdle /\ CsvIdle

TagSpec == TagSpecInit /\ [][TagNext]_vars

SqlSpecInit ==
    SqlInit /\ WaitIdle /\ TagIdle /\ CreateIdle /\ LatestIdle /\ DeleteIdle /\ CsvIdle

SqlSpec == SqlSpecInit /\ [][SqlNext]_vars

CreateSpecInit ==
    CreateInit /\ WaitIdle /\ TagIdle /\ SqlIdle /\ LatestIdle /\ DeleteIdle /\ CsvIdle

CreateSpec == CreateSpecInit /\ [][CreateNext]_vars

LatestSpecInit ==
    LatestInit /\ WaitIdle /\ TagIdle /\ SqlIdle /\ CreateIdle /\ DeleteIdle /\ CsvIdle

LatestSpec == LatestSpecInit /\ [][LatestNext]_vars

DeleteSpecInit ==
    DeleteInit /\ WaitIdle /\ TagIdle /\ SqlIdle /\ CreateIdle /\ LatestIdle /\ CsvIdle

DeleteSpec == DeleteSpecInit /\ [][DeleteNext]_vars

CsvSpecInit ==
    CsvInit /\ WaitIdle /\ TagIdle /\ SqlIdle /\ CreateIdle /\ LatestIdle /\ DeleteIdle

CsvSpec == CsvSpecInit /\ [][CsvNext]_vars

(***************************************************************************)
(* Claims about the status waiter                                          *)
(***************************************************************************)

\* C1: the task writes its result channel exactly once: after the first
\* boolean has been sent, no later tick and no later timeout makes the task
\* reach another send on the channel.
C1_ChannelWrittenOnce ==
    [][delivered # <<>> => sendAttempts' = sendAttempts]_vars

\* C2: once a terminal state is reached (true or false has been sent), no
\* further describe call is issued to the provider.
C2_NoDescribeAfterTerminal ==
    [][delivered # <<>> => describeCalls' = describeCalls]_vars

\* C3: if the status first equals "available" on the k-th poll, true is
\* delivered at that poll, after exactly k describe calls and not before k
\* intervals have passed, and nothing is delivered before it (as long as no
\* describe call failed and the timeout case has not been taken).
C3_TrueAtFirstAvailablePoll ==
    /\ (delivered # <<>> /\ delivered[1].val = TRUE) =>
          /\ firstAvail > 0
          /\ delivered[1].calls = firstAvail
          /\ delivered[1].at >= firstAvail * IntervalSec
    /\ (firstAvail > 0 /\ ~timeoutTaken /\ pc = "select") =>
          /\ Len(delivered) = 1
          /\ delivered[1].val = TRUE
    /\ (firstAvail = 0 /\ ~describeErr /\ ~timeoutTaken) => delivered = <<>>

\* C3, witness: available on the 3rd poll, true delivered after 3 describe
\* calls and three intervals of 30 seconds.
C3_Witness ==
    /\ firstAvail = 3
    /\ delivered = <<[val |-> TRUE, calls |-> 3, at |-> 3 * IntervalSec]>>
    /\ pc = "select"

\* C4: when the status never equals "available" and no describe call fails,
\* the value delivered is false, it is delivered when the timeout fires and
\* not earlier, and no provider call is issued afterwards.
C4_FalseAtTimeoutThenSilent ==
    /\ []((firstAvail = 0 /\ ~describeErr /\ delivered # <<>>) =>
            /\ delivered[1].val = FALSE
            /\ timeoutTaken
            /\ delivered[1].at >= TimeoutSec)
    /\ [][(firstAvail = 0 /\ ~describeErr /\ delivered # <<>>) =>
            describeCalls' = describeCalls]_vars

\* C5: after a describe error the waiter has delivered false as its single
\* result and the wait has ended in the Failed state (the task has not
\* crashed the process of the caller that observed the false).
C5_DescribeErrorEndsFailed ==
    (describeErr /\ pc # "sendErr") =>
        /\ Len(delivered) = 1
        /\ delivered[1].val = FALSE
        /\ pc # "panicked"

(***************************************************************************)
(* Claims about the query executor                                         *)
(***************************************************************************)

\* the queries sent on the connection so far, in order
SentQueries ==
    SelectSeq(sqlLog, LAMBDA e : e[1] = "query")
\* how often an event is in the log
LogCount(what) ==
    Cardinality({i \in 1..Len(sqlLog) : sqlLog[i][1] = what})
\* positions of the failed queries among those sent
FailedAt == {i \in 1..Len(qFacts) : qFacts[i].fail}

\* C6: the queries run strictly in input order and the batch stops at the
\* first failing one: with the first failure at position k exactly the
\* queries 1..k were sent, the returned list holds the k-1 elapsed times of
\* the queries before it, in order, and the error is non-nil; with no failure
\* the list holds all n elapsed times and the error is nil.
C6_StopsAtFirstFailure ==
    /\ SentQueries = [i \in 1..Len(qFacts) |-> <<"query", i>>]
    /\ (sqlPc = "done" /\ LogCount("open") > 0) =>
         IF FailedAt # {}
           THEN LET k == CHOOSE i \in FailedAt : \A j \in FailedAt : i <= j
                IN /\ Len(qFacts) = k
                   /\ k <= nQueries
                   /\ sqlTimes = [i \in 1..(k - 1) |-> qFacts[i].dur]
                   /\ sqlErr # "nil"
           ELSE /\ Len(qFacts) = nQueries
                /\ sqlTimes = [i \in 1..nQueries |-> qFacts[i].dur]
                /\ sqlErr = "nil"

\* C6, witness: three queries, the 2nd fails: one elapsed time is returned
\* with the error and the 3rd query was never sent.
C6_Witness ==
    /\ sqlPc = "done"
    /\ nQueries = 3
    /\ FailedAt = {2}
    /\ Len(sqlTimes) = 1
    /\ sqlErr = "query"
    /\ SentQueries = <<<<"query", 1>>, <<"query", 2>>>>

\* C7: a run that opens a connection opens exactly one, closes it exactly
\* once before it returns, whether a query failed or not, and sends no query
\* on it after the close.
C7_ConnectionClosedOnce ==
    /\ LogCount("open") <= 1
    /\ LogCount("close") <= LogCount("open")
    /\ \A i, j \in 1..Len(sqlLog) :
         (sqlLog[i][1] = "close" /\ i < j) => sqlLog[j][1] = "return"
    /\ (sqlPc = "done" /\ LogCount("open") > 0) =>
         /\ sqlLog[1] = <<"open">>
         /\ LogCount("open") = 1
         /\ LogCount("close") = 1
         /\ sqlLog[Len(sqlLog) - 1] = <<"close">>
         /\ sqlLog[Len(sqlLog)] = <<"return">>

\* C7, witness: a run whose 2nd of three queries failed has returned with
\* its connection closed.
C7_Witness ==
    /\ sqlPc = "done"
    /\ nQueries = 3
    /\ sqlErr = "query"
    /\ sqlLog = <<<<"open">>, <<"query", 1>>, <<"query", 2>>, <<"close">>,
                  <<"return">>>>

(***************************************************************************)
(* Claims about the tag registry                                           *)
(***************************************************************************)

\* C8: the check answers true for a tag list that holds both an rt_name tag
\* whose value starts with the application name and an rt_time tag, and
\* false for a tag list that holds only one of the two.
C8_OwnedIffBothTags ==
    \A i \in 1..Len(tagFacts) :
        ~tagFacts[i].err =>
            /\ (tagFacts[i].name /\ tagFacts[i].time) => tagFacts[i].state
            /\ (tagFacts[i].name # tagFacts[i].time) => ~tagFacts[i].state

\* C8, witness: the check has answered true for a resource with both tags
\* and false for resources with only the name tag and only the time tag.
C8_Witness ==
    /\ Len(tagFacts) = 3
    /\ tagFacts[1] = [err |-> FALSE, name |-> TRUE, time |-> TRUE, state |-> TRUE]
    /\ tagFacts[2] = [err |-> FALSE, name |-> TRUE, time |-> FALSE, state |-> FALSE]
    /\ tagFacts[3] = [err |-> FALSE, name |-> FALSE, time |-> TRUE, state |-> FALSE]

\* the resources of the provider's list that carry both tags
OwnedOf(list) ==
    SelectSeq(list, LAMBDA id : tagFacts[id].name /\ tagFacts[id].time)

\* C9: when no list-tags call fails, the operation returns exactly the owned
\* resources of the provider's list, in the order of that list.
C9_ReturnsOwnedInOrder ==
    (tagPc = "done" /\ ~tagErr) =>
        /\ Len(tagFacts) = Len(dbList)
        /\ tagResult = OwnedOf(dbList)

\* C9, witness: of three resources the 1st and the 3rd are owned and are
\* returned in that order.
C9_Witness ==
    /\ tagPc = "done"
    /\ ~tagErr
    /\ Len(dbList) = 3
    /\ tagFacts[2].name /\ ~tagFacts[2].time
    /\ tagResult = <<1, 3>>

\* the kind of resource the running operation lists
TagKind == IF tagOp = "snapshots" THEN "snapshot" ELSE "instance"

\* C10: when the list-tags call fails for the i-th resource, the operation
\* returns the error with an empty result, not the owned resources found
\* before i, and has called list-tags for the elements 1..i only.
C10_ErrorDropsPartialResult ==
    \A i \in 1..Len(tagFacts) :
        tagFacts[i].err =>
            /\ tagPc = "done"
            /\ tagErr
            /\ tagResult = <<>>
            /\ listCalls = [j \in 1..i |-> getARNString(TagKind, dbList[j])]

\* C10, witness: the 1st of three resources is owned, the call for the 2nd
\* fails: the result is empty and there was no call for the 3rd.
C10_Witness ==
    /\ tagPc = "done"
    /\ tagErr
    /\ Len(dbList) = 3
    /\ Len(tagFacts) = 2
    /\ tagFacts[1].state
    /\ tagFacts[2].err
    /\ dbOwned = <<1>>
    /\ tagResult = <<>>
    /\ Len(listCalls) = 2

(***************************************************************************)
(* Further claims about the status waiter                                  *)
(***************************************************************************)

\* C17: the status field of a describe result is read only when the describe
\* call returned no error: the task never dereferences the nil result of a
\* failed describe call.
C17_StatusReadOnlyWithoutError ==
    pc = "deref" => db # Nil

\* the task waits in a send that no receive will ever meet
BlockedOnSend ==
    /\ pc \in {"sendErr", "sendTrue", "sendTimeout"}
    /\ ~CallerWaiting
\* the task waits in the select, the ticker is stopped, the timeout is used
\* up and neither channel holds a value
BlockedOnTimers ==
    /\ pc = "select"
    /\ tickerStopped /\ tickC = 0
    /\ timeoutFired /\ timeoutC = 0

\* C18: after it has delivered its result the task leaves its loop; it is
\* never left blocked forever on a timer or on a send to the result channel.
C18_TaskNotLeftBlocked ==
    delivered # <<>> => (~BlockedOnSend /\ ~BlockedOnTimers)

\* C19: for an argument that is neither a *DBInstance nor a *DBSnapshot no
\* describe call is issued, nothing is delivered before the timeout, and
\* false is delivered when the timeout fires.
C19_WrongKindFailsAtTimeout ==
    rdstypes = "other" =>
        /\ describeCalls = 0
        /\ ~timeoutTaken => (delivered = <<>> /\ sendAttempts = 0)
        /\ delivered # <<>> =>
             /\ delivered[1].val = FALSE
             /\ delivered[1].at >= TimeoutSec
        /\ (timeoutTaken /\ pc = "select") => Len(delivered) = 1

\* C19, witness: ticks were handled without a describe call and the timeout
\* has delivered false at 30 minutes.
C19_Witness ==
    /\ rdstypes = "other"
    /\ timeoutTaken
    /\ tickC = 0
    /\ pc = "select"
    /\ delivered = <<[val |-> FALSE, calls |-> 0, at |-> TimeoutSec]>>

(***************************************************************************)
(* Claims about the creation of resources                                  *)
(***************************************************************************)

\* C11: every resource this tool creates carries exactly two tags, rt_name
\* with a value that starts with the application name and rt_time, given in
\* the creation call; the check answers true for every such resource.
C11_CreatedResourcesAreOwned ==
    /\ \A i \in 1..Len(created) :
         /\ Len(created[i].Tags) = 2
         /\ \E j \in 1..2 :
              /\ created[i].Tags[j].Key = rt_name_text
              /\ HasPrefix(created[i].Tags[j].Value, GetFormatedAppName)
         /\ \E j \in 1..2 : created[i].Tags[j].Key = rt_time_text
    /\ \A c \in 1..Len(ownedChecks) :
         ~ownedChecks[c].err => ownedChecks[c].state

\* C11, witness: an instance and a snapshot were created at different times
\* and the check has answered true for both.
C11_Witness ==
    /\ Len(created) = 2
    /\ created[1].kind = "instance"
    /\ created[2].kind = "snapshot"
    /\ created[1].Tags # created[2].Tags
    /\ ownedChecks = <<[of |-> 1, err |-> FALSE, state |-> TRUE],
                       [of |-> 2, err |-> FALSE, state |-> TRUE]>>

(***************************************************************************)
(* Claims about DescribeLatestDBSnapshot                                   *)
(***************************************************************************)

\* positions of the "available" snapshots in the provider's answer
AvailableAt == {i \in 1..Len(lsResp.list) : lsResp.list[i].Status = Available}

\* C12: the operation returns the last snapshot, in the provider's order,
\* among those with status "available", never one with another status, and
\* fails with SnapshotNotFound exactly when the provider's list holds no
\* "available" snapshot.
C12_LatestIsLastAvailable ==
    (lsPc = "done" /\ ~lsResp.err) =>
        /\ (lsErr = "ErrSnapshotNotFound") <=> (AvailableAt = {})
        /\ AvailableAt = {} => lsResult = Nil
        /\ AvailableAt # {} =>
             /\ lsErr = "nil"
             /\ lsResult.Status = Available
             /\ \E i \in AvailableAt :
                  /\ lsResult = lsResp.list[i]
                  /\ \A j \in AvailableAt : j <= i

\* C12, witness: two "available" snapshots followed by a "creating" one: the
\* second is returned.
C12_Witness ==
    /\ lsPc = "done"
    /\ Len(lsResp.list) = 3
    /\ AvailableAt = {1, 2}
    /\ lsResult = lsResp.list[2]
    /\ lsErr = "nil"

\* C12, witness of the failure: a list that is not empty and holds no
\* "available" snapshot gives SnapshotNotFound.
C12_WitnessNotFound ==
    /\ lsPc = "done"
    /\ Len(lsResp.list) = 2
    /\ AvailableAt = {}
    /\ lsErr = "ErrSnapshotNotFound"

(***************************************************************************)
(* Claims about DeleteDBResources                                          *)
(***************************************************************************)

\* the delete call the running case issues
DeleteCallName == IF delKind = "snapshots" THEN "DeleteDBSnapshot" ELSE "DeleteDBInstance"

\* C13: the delete calls are issued one at a time in list order and the
\* batch stops at the first failure: when the delete of element i fails,
\* exactly the elements before i are deleted, there is no call for an element
\* after i and the error is returned; when none fails every element is
\* deleted exactly once and nil is returned.
C13_DeleteStopsAtFirstFailure ==
    delKind \in {"snapshots", "instances"} =>
        /\ delCalls = [j \in 1..Len(delCalls) |-> <<DeleteCallName, delList[j]>>]
        /\ delDeleted = [j \in 1..Len(delDeleted) |-> delList[j]]
        /\ Len(delCalls) \in {Len(delDeleted), Len(delDeleted) + 1}
        /\ Len(delCalls) > Len(delDeleted) => (delPc = "done" /\ delErr = TRUE)
        /\ (delPc = "done" /\ delErr = TRUE) => Len(delCalls) = Len(delDeleted) + 1
        /\ (delPc = "done" /\ delErr = FALSE) =>
             /\ delDeleted = delList
             /\ Len(delCalls) = Len(delList)

\* C13, witness: of three snapshots the delete of the 2nd failed: the 1st is
\* deleted, the 3rd was never asked for, the error is returned.
C13_Witness ==
    /\ delKind = "snapshots"
    /\ delPc = "done"
    /\ delErr = TRUE
    /\ Len(delList) = 3
    /\ delDeleted = <<delList[1]>>
    /\ Len(delCalls) = 2

\* C20: for an argument that is neither a list of DBSnapshot nor a list of
\* DBInstance no delete call is issued and the returned error is nil.
C20_UnknownKindDeletesNothing ==
    delKind = "other" =>
        /\ delCalls = <<>>
        /\ delDeleted = <<>>
        /\ delPc = "done" => delErr = FALSE

\* C20, witness: the call with a value of another type has returned nil.
C20_Witness ==
    /\ delKind = "other"
    /\ delList # <<>>
    /\ delPc = "done"
    /\ delErr = FALSE
    /\ delCalls = <<>>

(***************************************************************************)
(* Claims about the export in ExecuteSQL                                   *)
(***************************************************************************)

\* the export failed: writeCSVFile returned false or the file was not written
ExportFailed(e) == ~e.ok \/ e.io # "none"

\* the queries whose result is to be exported, in execution order
ExportedExpected ==
    SelectSeq([i \in 1..Len(qFacts) |-> i],
              LAMBDA i : outFile /\ ~qFacts[i].fail /\ qFacts[i].cols > 0)

\* C14: a failed CSV export of one query does not abort the batch: the
\* duration of that query is in the timing list, the loop goes on to every
\* later query, each answered query with a column is exported once (when the
\* export is enabled), and the returned error is that of the queries alone.
C14_ExportFailureDoesNotAbort ==
    /\ [k \in 1..Len(exports) |-> exports[k].query] = ExportedExpected
    /\ sqlLog # <<>> =>
         \A k \in 1..Len(exports) :
             /\ exports[k].query <= Len(times)
             /\ times[exports[k].query] = qFacts[exports[k].query].dur
    /\ sqlPc = "loop" => qIdx = Len(qFacts) + 1
    /\ (sqlPc = "done" /\ qFacts # <<>>) =>
         /\ sqlErr = (IF FailedAt = {} THEN "nil" ELSE "query")
         /\ FailedAt = {} => Len(qFacts) = nQueries
         /\ \A k \in 1..Len(exports) :
                sqlTimes[exports[k].query] = qFacts[exports[k].query].dur

\* C14, witness: of three queries the export of the 1st failed on the file;
\* all three ran and were exported, three durations and a nil error returned.
C14_Witness ==
    /\ sqlPc = "done"
    /\ nQueries = 3
    /\ Len(exports) = 3
    /\ exports[1].io = "open"
    /\ ~ExportFailed(exports[2])
    /\ Len(sqlTimes) = 3
    /\ sqlErr = "nil"

(***************************************************************************)
(* Claims about writeCSVFile                                               *)
(***************************************************************************)

\* C15: writeCSVFile returns false whenever opening, truncating or writing
\* the file fails, and returns true only when the file was opened and holds
\* the header and all the rows handed to the writer.
C15_FileFailureIsReported ==
    csvPc = "done" =>
        /\ csvIo # "none" => csvRet = FALSE
        /\ csvRet = TRUE => (csvIo = "none" /\ csvFile = csvBuf)

\* C15, the case in the code: os.OpenFile failed, the file at out_path is as
\* it was, and true was returned.
C15_Witness ==
    /\ csvPc = "done"
    /\ csvIo = "open"
    /\ csvFile = CsvOld
    /\ Len(csvRows) = 2
    /\ csvRet = TRUE

\* a csv file read back: the records of the text, each a list of fields;
\* a quoted field ends at a quote that is not doubled
RECURSIVE ReadFrom(_, _, _, _, _)
ReadFrom(text, i, field, record, quoted) ==
    IF i > Len(text)
      THEN IF field = <<>> /\ record = <<>> THEN <<>>
           ELSE <<Append(record, field)>>
    ELSE IF quoted
      THEN IF text[i] = "\""
             THEN IF i < Len(text) /\ text[i + 1] = "\""
                    THEN ReadFrom(text, i + 2, Append(field, "\""), record, TRUE)
                    ELSE ReadFrom(text, i + 1, field, record, FALSE)
             ELSE ReadFrom(text, i + 1, Append(field, text[i]), record, TRUE)
    ELSE IF text[i] = "," THEN ReadFrom(text, i + 1, <<>>, Append(record, field), FALSE)
    ELSE IF text[i] = "\n"
      THEN <<Append(record, field)>> \o ReadFrom(text, i + 1, <<>>, <<>>, FALSE)
    ELSE IF text[i] = "\"" /\ field = <<>>
      THEN ReadFrom(text, i + 1, <<>>, record, TRUE)
    ELSE ReadFrom(text, i + 1, Append(field, text[i]), record, FALSE)

ReadAll(text) == ReadFrom(text, 1, <<>>, <<>>, FALSE)

\* the records the claim says the file holds: the column names, then per row
\* of the result set the text of each value, null for an absent one
ExpectedRecords ==
    <<csvCols>> \o
      [r \in 1..Len(csvRows) |->
         [c \in 1..Len(csvCols) |->
            IF csvRows[r][c].null THEN <<"n", "u", "l", "l">>
            ELSE csvRows[r][c].text]]

\* C16: in non-BOM mode, in a run where nothing fails on the file and no scan
\* error is logged, the file holds first the header row with the column
\* names in their order, then one row per result row in cursor order, an
\* absent value as the text null and a present value as its text.
C16_RowsOfTheResultSet ==
    (/\ csvPc = "done" /\ ~csvBom /\ ~csvColsErr /\ csvIo = "none"
     /\ \A r \in 1..Len(csvScans) : csvScans[r] = 0) =>
        ReadAll(csvFile) = ExpectedRecords

\* C16, the example: columns [id, name], rows (1, "a"), (2, nil), every scan
\* succeeded: the file is the header, 1,a and 2,null.
C16_Witness ==
    /\ csvPc = "done"
    /\ ~csvBom
    /\ csvCols = <<<<"i", "d">>, <<"n", "a", "m", "e">>>>
    /\ csvRows = << <<TextValue(<<"1">>), TextValue(<<"a">>)>>,
                    <<TextValue(<<"2">>), NullValue>> >>
    /\ csvScans = <<0, 0>>
    /\ csvFile = <<"i", "d", ",", "n", "a", "m", "e", "\n",
                   "1", ",", "a", "\n",
                   "2", ",", "n", "u", "l", "l", "\n">>

====
